---- MODULE Spec2Model ----
(***************************************************************************)
(* The folder-tree selection engine of interactive-folder-selector:        *)
(* the useFoldersData hook (hooks/useFolderData.ts) and the pure tree      *)
(* utilities it calls (utils/folderUtils.ts).                              *)
(*                                                                         *)
(* Encodings.  A JavaScript Set is an insertion-ordered collection; the    *)
(* selected ids are kept as a duplicate-free sequence in insertion order   *)
(* because getSelectedItemIds iterates it.  expandedFolderIds is only ever *)
(* asked for membership, so it is a plain set.  `null` is the integer -1   *)
(* (ids are non-negative).  A Folder object is a record whose children are *)
(* nested Folder records: the object graph reachable from the roots that   *)
(* nestFoldersWithItems returns is always a tree.                          *)
(***************************************************************************)
EXTENDS Integers, Sequences, FiniteSets

VARIABLES folders, error, isLoading, selectionState, folderStates,
          inflight, latestInflight, latestResult, lastOp, prevSelected,
          responseBody, nested, sortedTree, resortedTree, mergeSorted, pc,
          pathFolderId, folderPath

\* the hook: its React state, its fetches under way, the history of its calls
hookVars == <<folders, error, isLoading, selectionState, folderStates,
              inflight, latestInflight, latestResult, lastOp, prevSelected>>

\* one call of processApiData taken step by step: its argument, what
\* nestFoldersWithItems returned, what sortFolders made of that, what a
\* second sortFolders made of the sorted forest, what sortAndNestFolders
\* returned for the same folder rows, and how far the call is
treeVars == <<responseBody, nested, sortedTree, resortedTree, mergeSorted, pc,
              pathFolderId, folderPath>>

\* one call of getFolderPath on the forest processApiData returned: its
\* folderId argument and the path it returned
pathVars == <<pathFolderId, folderPath>>

vars == <<folders, error, isLoading, selectionState, folderStates,
          inflight, latestInflight, latestResult, lastOp, prevSelected,
          responseBody, nested, sortedTree, resortedTree, mergeSorted, pc,
          pathFolderId, folderPath>>

(***************************************************************************)
(* Bounds and value encodings                                              *)
(***************************************************************************)
\* number of fetchData calls that may be awaiting their response at once
MaxInflight == 2

\* number of folder rows in the responses handed to processApiData step by step
MaxFolders == 3

null == -1

NoError == "null"

Range(s) == {s[i] : i \in 1..Len(s)}

RECURSIVE Flatten(_)
\* concatenation of a sequence of sequences: queue.push(...xs) for each xs
Flatten(ss) == IF ss = <<>> THEN <<>> ELSE Head(ss) \o Flatten(Tail(ss))

(***************************************************************************)
(* JavaScript Set<number> operations on the insertion-ordered encoding     *)
(***************************************************************************)
SetHas(s, x) == x \in Range(s)

SetAdd(s, x) == IF SetHas(s, x) THEN s ELSE Append(s, x)

SetDelete(s, x) == SelectSeq(s, LAMBDA y : y # x)

RECURSIVE SetAddAll(_, _)
SetAddAll(s, xs) == IF xs = <<>> THEN s ELSE SetAddAll(SetAdd(s, Head(xs)), Tail(xs))

RECURSIVE SetDeleteAll(_, _)
SetDeleteAll(s, xs) ==
    IF xs = <<>> THEN s ELSE SetDeleteAll(SetDelete(s, Head(xs)), Tail(xs))

(***************************************************************************)
(* String.prototype.localeCompare on the names that occur in the modelled  *)
(* responses: alphabetical, lower case before upper case of one letter.    *)
(***************************************************************************)
CollationKey(name) ==
    CASE name = "a" -> 1
      [] name = "A" -> 2
      [] name = "B" -> 3
      [] name = "Unnamed Folder" -> 4
      [] name = "Unnamed Item" -> 5
      [] name = "x" -> 6
      [] name = "y" -> 7

localeCompare(a, b) == CollationKey(a) - CollationKey(b)

RECURSIVE InsertByName_tiesFirst(_, _)
\* mutant: x goes before the elements that compare equal to it
InsertByName_tiesFirst(sorted, x) ==
    IF sorted = <<>> THEN <<x>>
    ELSE IF localeCompare(Head(sorted).name, x.name) < 0
         THEN <<Head(sorted)>> \o InsertByName_tiesFirst(Tail(sorted), x)
         ELSE <<x>> \o sorted

RECURSIVE InsertByName(_, _)
\* x goes after every element that does not compare greater than it
InsertByName(sorted, x) ==
    IF sorted = <<>> THEN <<x>>
    ELSE IF localeCompare(Head(sorted).name, x.name) <= 0
         THEN <<Head(sorted)>> \o InsertByName(Tail(sorted), x)
         ELSE <<x>> \o sorted

RECURSIVE SortByName(_)
\* Array.prototype.sort((a, b) => a.name.localeCompare(b.name)): stable
SortByName(xs) ==
    IF xs = <<>> THEN <<>>
    ELSE InsertByName(SortByName(SubSeq(xs, 1, Len(xs) - 1)), xs[Len(xs)])

RECURSIVE InsertNum(_, _)
InsertNum(sorted, x) ==
    IF sorted = <<>> THEN <<x>>
    ELSE IF Head(sorted) - x <= 0
         THEN <<Head(sorted)>> \o InsertNum(Tail(sorted), x)
         ELSE <<x>> \o sorted

RECURSIVE SortNumeric(_)
\* Array.prototype.sort((a, b) => a - b)
SortNumeric(xs) ==
    IF xs = <<>> THEN <<>>
    ELSE InsertNum(SortNumeric(SubSeq(xs, 1, Len(xs) - 1)), xs[Len(xs)])

(***************************************************************************)
(* utils/folderUtils.ts                                                    *)
(***************************************************************************)
parseApiResponse(apiResponse) ==
    [folders |-> [i \in 1..Len(apiResponse.folders.data) |->
                    LET row == apiResponse.folders.data[i] IN
                    [id |-> row[1],
                     name |-> IF row[2] = "" THEN "Unnamed Folder" ELSE row[2],
                     parent |-> row[3],
                     children |-> <<>>,
                     items |-> <<>>]],
     items |-> [i \in 1..Len(apiResponse.items.data) |->
                    LET row == apiResponse.items.data[i] IN
                    [id |-> row[1],
                     name |-> IF row[2] = "" THEN "Unnamed Item" ELSE row[2],
                     folder_id |-> row[3]]]]

\* folderMap.get(id): the index of the last flat folder carrying that id, 0 if none
FolderMapGet(flat, id) ==
    LET hits == {i \in 1..Len(flat) : flat[i].id = id}
    IN  IF hits = {} THEN 0 ELSE CHOOSE i \in hits : \A j \in hits : j <= i

\* the indices 1..n in ascending order: the order forEach and the queue visit
Indices(n) == [i \in 1..n |-> i]

\* mutant: items put at the front of folder.items (unshift for push)
AssignItems_unshift(flat, flatItems, i) ==
    LET own == SelectSeq(flatItems, LAMBDA it : FolderMapGet(flat, it.folder_id) = i)
    IN  [k \in 1..Len(own) |-> own[Len(own) + 1 - k]]

\* folder.items of flat[i] after `items.forEach(...)`: the items whose
\* folder_id the map resolves to that folder, in input order
AssignItems(flat, flatItems, i) ==
    SelectSeq(flatItems, LAMBDA it : FolderMapGet(flat, it.folder_id) = i)

RECURSIVE NestNode(_, _, _)
\* the Folder object of flat[i] once nestFoldersWithItems has run
NestNode(flat, flatItems, i) ==
    LET kids == SelectSeq(Indices(Len(flat)),
                   LAMBDA j : /\ flat[j].parent # null
                              /\ FolderMapGet(flat, flat[j].parent) = i)
    IN  [id |-> flat[i].id,
         name |-> flat[i].name,
         parent |-> flat[i].parent,
         children |-> [k \in 1..Len(kids) |-> NestNode(flat, flatItems, kids[k])],
         items |-> AssignItems(flat, flatItems, i)]

\* mutant: a folder whose parent is not found is pushed to roots
nestFoldersWithItems_promotesOrphans(flat, flatItems) ==
    LET roots == SelectSeq(Indices(Len(flat)),
                    LAMBDA j : \/ flat[j].parent = null
                               \/ FolderMapGet(flat, flat[j].parent) = 0)
    IN  [k \in 1..Len(roots) |-> NestNode(flat, flatItems, roots[k])]

\* mutant: the else missing for the children of a root, which are pushed to
\* roots as well as to parent.children
nestFoldersWithItems_childAlsoRoot(flat, flatItems) ==
    LET roots == SelectSeq(Indices(Len(flat)),
                    LAMBDA j : \/ flat[j].parent = null
                               \/ /\ FolderMapGet(flat, flat[j].parent) # 0
                                  /\ flat[FolderMapGet(flat, flat[j].parent)].parent = null)
    IN  [k \in 1..Len(roots) |-> NestNode(flat, flatItems, roots[k])]

nestFoldersWithItems(flat, flatItems) ==
    LET roots == SelectSeq(Indices(Len(flat)), LAMBDA j : flat[j].parent = null)
    IN  [k \in 1..Len(roots) |-> NestNode(flat, flatItems, roots[k])]

\* mutant: only the root array sorted, the queue loop missing
sortFolders_rootsOnly(fs) == SortByName(fs)

RECURSIVE sortFolders(_)
sortFolders(fs) ==
    LET sorted == SortByName(fs)
    IN  [k \in 1..Len(sorted) |->
            [sorted[k] EXCEPT
               !.items = IF Len(@) > 1 THEN SortByName(@) ELSE @,
               !.children = sortFolders(@)]]

processApiData(apiResponse) ==
    LET parsed == parseApiResponse(apiResponse)
    IN  sortFolders(nestFoldersWithItems(parsed.folders, parsed.items))

\* parseData: the rows as folders of the older Folder type.  The rows have no
\* fourth entry, so created is undefined.
parseData(data) ==
    [i \in 1..Len(data) |->
        [id |-> data[i][1],
         name |-> IF data[i][2] = "" THEN "Unnamed Folder" ELSE data[i][2],
         parent |-> data[i][3],
         created |-> "undefined",
         children |-> <<>>]]

RECURSIVE merge_rightOnTies(_, _)
\* mutant: < for <=, the right run goes first on equal names
merge_rightOnTies(left, right) ==
    IF left = <<>> THEN right
    ELSE IF right = <<>> THEN left
    ELSE IF localeCompare(Head(left).name, Head(right).name) < 0
         THEN <<Head(left)>> \o merge_rightOnTies(Tail(left), right)
         ELSE <<Head(right)>> \o merge_rightOnTies(left, Tail(right))

RECURSIVE merge(_, _)
merge(left, right) ==
    IF left = <<>> THEN right
    ELSE IF right = <<>> THEN left
    ELSE IF localeCompare(Head(left).name, Head(right).name) <= 0
         THEN <<Head(left)>> \o merge(Tail(left), right)
         ELSE <<Head(right)>> \o merge(left, Tail(right))

RECURSIVE mergeSort(_)
mergeSort(fs) ==
    IF Len(fs) <= 1 THEN fs
    ELSE LET middle == Len(fs) \div 2
         IN  merge(mergeSort(SubSeq(fs, 1, middle)),
                   mergeSort(SubSeq(fs, middle + 1, Len(fs))))

RECURSIVE SortAndNestNode(_, _)
\* the Folder object of flat[i] after the two forEach loops of
\* sortAndNestFolders: its children in input order
SortAndNestNode(flat, i) ==
    LET kids == SelectSeq(Indices(Len(flat)),
                   LAMBDA j : /\ flat[j].parent # null
                              /\ FolderMapGet(flat, flat[j].parent) = i)
    IN  [flat[i] EXCEPT
            !.children = [k \in 1..Len(kids) |-> SortAndNestNode(flat, kids[k])]]

RECURSIVE sortFoldersRecursively(_)
sortFoldersRecursively(fs) ==
    IF Len(fs) = 0 THEN fs
    ELSE LET sortedFolders == mergeSort(fs)
         IN  [k \in 1..Len(sortedFolders) |->
                 [sortedFolders[k] EXCEPT
                    !.children = IF Len(@) > 0 THEN sortFoldersRecursively(@) ELSE @]]

sortAndNestFolders(flat) ==
    LET roots == SelectSeq(Indices(Len(flat)), LAMBDA j : flat[j].parent = null)
    IN  sortFoldersRecursively([k \in 1..Len(roots) |-> SortAndNestNode(flat, roots[k])])

\* mutant: only the folder's own items, child folders not visited
getAllDescendantItemIds_ownOnly(folder) ==
    [k \in 1..Len(folder.items) |-> folder.items[k].id]

RECURSIVE DescendantBfs(_, _)
DescendantBfs(queue, itemIds) ==
    IF queue = <<>> THEN itemIds
    ELSE LET currentFolder == Head(queue)
         IN  DescendantBfs(Tail(queue) \o currentFolder.children,
                           itemIds \o [k \in 1..Len(currentFolder.items) |->
                                          currentFolder.items[k].id])

getAllDescendantItemIds(folder) == DescendantBfs(<<folder>>, <<>>)

\* mutant: the roots only, the queue never fed with children
flattenFolders_rootsOnly(fs) == fs

RECURSIVE FlattenBfs(_, _)
FlattenBfs(queue, result) ==
    IF queue = <<>> THEN result
    ELSE FlattenBfs(Tail(queue) \o Head(queue).children, Append(result, Head(queue)))

flattenFolders(fs) == FlattenBfs(fs, <<>>)

RECURSIVE buildPostOrder(_)
buildPostOrder(f) ==
    Flatten([k \in 1..Len(f.children) |-> buildPostOrder(f.children[k])]) \o <<f>>

\* mutant: indeterminate also when every descendant item is selected
FolderState_indetInclusive(folder, selectedItemIds) ==
    LET descIds == DescendantBfs(<<folder>>, <<>>)
        total == Len(descIds)
        selectedCount == Len(SelectSeq(descIds, LAMBDA id : SetHas(selectedItemIds, id)))
    IN  [selected |-> total > 0 /\ selectedCount = total,
         indeterminate |-> selectedCount > 0 /\ selectedCount <= total]

\* mutant: the test total > 0 forgotten
FolderState_noEmptyGuard(folder, selectedItemIds) ==
    LET descIds == DescendantBfs(<<folder>>, <<>>)
        total == Len(descIds)
        selectedCount == Len(SelectSeq(descIds, LAMBDA id : SetHas(selectedItemIds, id)))
    IN  [selected |-> selectedCount = total,
         indeterminate |-> selectedCount > 0 /\ selectedCount < total]

\* the entry calculateFolderStates stores for one folder
FolderState(folder, selectedItemIds) ==
    LET descIds == getAllDescendantItemIds(folder)
        total == Len(descIds)
        selectedCount == Len(SelectSeq(descIds, LAMBDA id : SetHas(selectedItemIds, id)))
    IN  [selected |-> total > 0 /\ selectedCount = total,
         indeterminate |-> selectedCount > 0 /\ selectedCount < total]

\* a Map<number, ...> is a function on the set of its keys; a later set wins
calculateFolderStates(fs, selectedItemIds) ==
    LET postOrder == Flatten([k \in 1..Len(fs) |-> buildPostOrder(fs[k])])
        keys == {postOrder[i].id : i \in 1..Len(postOrder)}
    IN  [id \in keys |->
            LET last == CHOOSE i \in 1..Len(postOrder) :
                           /\ postOrder[i].id = id
                           /\ \A j \in 1..Len(postOrder) : postOrder[j].id = id => j <= i
            IN  FolderState(postOrder[last], selectedItemIds)]

\* mutant: some instead of every
areAllFolderItemsSelected_some(folder, selectedItemIds) ==
    \E k \in 1..Len(getAllDescendantItemIds(folder)) :
        SetHas(selectedItemIds, getAllDescendantItemIds(folder)[k])

\* mutant: <= for <, a folder with every descendant item selected counts too
isFolderIndeterminateOf_countOnly(folder, selectedItemIds) ==
    LET descendantItemIds == getAllDescendantItemIds(folder)
        selectedCount == Len(SelectSeq(descendantItemIds,
                                LAMBDA id : SetHas(selectedItemIds, id)))
    IN  selectedCount > 0 /\ selectedCount <= Len(descendantItemIds)

\* the standalone isFolderIndeterminate(folder, selectedItemIds) of the
\* utilities (the hook has a query of the same name)
isFolderIndeterminateOf(folder, selectedItemIds) ==
    LET descendantItemIds == getAllDescendantItemIds(folder)
        selectedCount == Len(SelectSeq(descendantItemIds,
                                LAMBDA id : SetHas(selectedItemIds, id)))
    IN  IF Len(descendantItemIds) = 0 THEN FALSE
        ELSE selectedCount > 0 /\ selectedCount < Len(descendantItemIds)

areAllFolderItemsSelected(folder, selectedItemIds) ==
    LET descendantItemIds == getAllDescendantItemIds(folder)
    IN  IF Len(descendantItemIds) = 0 THEN FALSE
        ELSE \A k \in 1..Len(descendantItemIds) :
                SetHas(selectedItemIds, descendantItemIds[k])

\* mutant: a monotonic add, never a deselect
toggleFolderSelection_alwaysAdd(folder, selectedItemIds) ==
    SetAddAll(selectedItemIds, getAllDescendantItemIds(folder))

\* mutant: the new set does not start as a copy of the old one
toggleFolderSelection_dropsPrior(folder, selectedItemIds) ==
    IF areAllFolderItemsSelected(folder, selectedItemIds)
    THEN <<>>
    ELSE SetAddAll(<<>>, getAllDescendantItemIds(folder))

\* mutant: the toggle reaches the folder's own items only
toggleFolderSelection_ownItemsOnly(folder, selectedItemIds) ==
    LET own == [k \in 1..Len(folder.items) |-> folder.items[k].id]
    IN  IF areAllFolderItemsSelected(folder, selectedItemIds)
        THEN SetDeleteAll(selectedItemIds, own)
        ELSE SetAddAll(selectedItemIds, own)

toggleFolderSelection(folder, selectedItemIds) ==
    LET descendantItemIds == getAllDescendantItemIds(folder)
        isCurrentlySelected == areAllFolderItemsSelected(folder, selectedItemIds)
    IN  IF isCurrentlySelected
        THEN SetDeleteAll(selectedItemIds, descendantItemIds)
        ELSE SetAddAll(selectedItemIds, descendantItemIds)

\* the truthiness of a `number | null` used as a condition: null and 0 are
\* falsy, every other id is truthy
ToBoolean(n) == n # null /\ n # 0

RECURSIVE WalkToRoot(_, _, _)
\* the second loop of getFolderPath, `current` being flat[i] (undefined when
\* i = 0): current goes to the front of the path, and the walk goes on from
\* the folder the map holds for current.parent when current.parent is truthy
WalkToRoot(flat, i, path) ==
    IF i = 0 THEN path
    ELSE WalkToRoot(flat,
                    IF ToBoolean(flat[i].parent)
                    THEN FolderMapGet(flat, flat[i].parent)
                    ELSE 0,
                    <<flat[i]>> \o path)

\* the folder map is filled in the breadth-first order of flattenFolders, a
\* later folder replacing an earlier one of the same id
getFolderPath(folderId, allFolders) ==
    LET flat == flattenFolders(allFolders)
    IN  WalkToRoot(flat, FolderMapGet(flat, folderId), <<>>)

(***************************************************************************)
(* hooks/useFolderData.ts: the derived state and the queries               *)
(***************************************************************************)
\* folderStates: useMemo over [folders, selectionState.selectedItemIds].  The
\* memo is recomputed on the render that follows a state update when one of
\* the two dependencies is another object than before (Object.is), and is
\* kept otherwise.
useMemoFolderStates(depsChanged) ==
    folderStates' =
        IF depsChanged
        THEN calculateFolderStates(folders', selectionState'.selectedItemIds)
        ELSE folderStates

isFolderSelected(folder) ==
    IF folder.id \in DOMAIN folderStates THEN folderStates[folder.id].selected ELSE FALSE

isFolderIndeterminate(folder) ==
    IF folder.id \in DOMAIN folderStates
    THEN folderStates[folder.id].indeterminate
    ELSE FALSE

\* mutant: the set's iteration order returned as it is, .sort missing
getSelectedItemIdsOf_insertionOrder(state) == state.selectedItemIds

\* getSelectedItemIds as the callback built for one value of selectionState
getSelectedItemIdsOf(state) == SortNumeric(state.selectedItemIds)

getSelectedItemIds == getSelectedItemIdsOf(selectionState)

(***************************************************************************)
(* What a fetch of /response.json can deliver.  A section of the body is   *)
(* absent, or present with a data field that is or is not an array.        *)
(***************************************************************************)
Section(rows) == [present |-> TRUE, isArray |-> TRUE, data |-> rows]

MissingSection == [present |-> FALSE, isArray |-> FALSE, data |-> <<>>]

NonArraySection == [present |-> TRUE, isArray |-> FALSE, data |-> <<>>]

Body(folderRows, itemRows) == [folders |-> Section(folderRows), items |-> Section(itemRows)]

\* well-formed bodies: folder rows <<id, title, parentId>>, item rows <<id, title, folderId>>
WellFormedBodies ==
    { \* two roots given out of name order, one item each
      Body(<< <<1, "B", null>>, <<2, "A", null>> >>,
           << <<10, "x", 1>>, <<11, "y", 2>> >>),
      \* a root with two children, one item under each child
      Body(<< <<1, "A", null>>, <<2, "B", 1>>, <<3, "A", 1>> >>,
           << <<10, "x", 2>>, <<11, "y", 3>> >>),
      \* a chain 1 > 2 > 3 given leaf first, an item at every level
      Body(<< <<3, "A", 2>>, <<2, "B", 1>>, <<1, "a", null>> >>,
           << <<10, "x", 3>>, <<11, "", 2>>, <<12, "y", 1>> >>),
      \* a chain whose leaf owns nothing
      Body(<< <<1, "A", null>>, <<2, "B", 1>>, <<3, "", 2>> >>,
           << <<11, "y", 1>>, <<10, "x", 2>> >>),
      \* a folder under an unknown parent, a folder that is its own parent,
      \* an item in each of them
      Body(<< <<1, "A", null>>, <<2, "B", 9>>, <<3, "B", 3>> >>,
           << <<10, "x", 1>>, <<11, "y", 2>>, <<12, "x", 3>> >>),
      \* two items of equal name in one folder, an item of an unknown folder
      \* id, a root that owns nothing
      Body(<< <<2, "A", null>>, <<1, "A", null>> >>,
           << <<11, "x", 1>>, <<10, "x", 1>>, <<12, "y", 9>> >>),
      \* no rows at all
      Body(<< >>, << >>) }

MalformedBodies ==
    { [folders |-> MissingSection, items |-> Section(<< >>)],
      [folders |-> Section(<< >>), items |-> NonArraySection] }

\* the outcome of `await fetch(...)` and `await response.json()`
FetchResults ==
    { [rejected |-> TRUE, ok |-> FALSE, body |-> Body(<< >>, << >>)],
      [rejected |-> FALSE, ok |-> FALSE, body |-> Body(<< >>, << >>)] }
    \cup { [rejected |-> FALSE, ok |-> TRUE, body |-> b] :
             b \in WellFormedBodies \cup MalformedBodies }

\* what latestResult holds while the most recently started fetch is awaited
NoResult == [rejected |-> TRUE, ok |-> FALSE, body |-> Body(<< >>, << >>)]

\* the ids a caller passes to the operations.  Each of them is attached by
\* some responses and by others not (the folders 2 and 3 and the items 11 and
\* 12 are dropped by the responses with unknown or circular parents).
ItemIdArgs == {10, 11, 12}

FolderIdArgs == {1, 2, 3}

\* expansion treats every id alike and independently
ExpansionIdArgs == {2}

NoArg == null

(***************************************************************************)
(* hooks/useFolderData.ts: the state and its operations                    *)
(***************************************************************************)
\* the useState initial values, and the mount effect's fetchData up to its
\* first await
HookInit ==
    /\ folders = <<>>
    /\ error = NoError
    /\ isLoading = TRUE
    /\ selectionState = [selectedItemIds |-> <<>>, expandedFolderIds |-> {}]
    /\ folderStates = calculateFolderStates(<<>>, <<>>)
    /\ inflight = 1
    /\ latestInflight = TRUE
    /\ latestResult = NoResult
    /\ lastOp = [op |-> "fetchData", id |-> NoArg, again |-> FALSE]
    /\ prevSelected = {}

\* the hook on its own: no step-by-step call of processApiData is under way
Init ==
    /\ HookInit
    /\ responseBody = Body(<< >>, << >>)
    /\ nested = <<>>
    /\ sortedTree = <<>>
    /\ resortedTree = <<>>
    /\ mergeSorted = <<>>
    /\ pc = "idle"
    /\ pathFolderId = NoArg
    /\ folderPath = <<>>

\* history: the last operation, whether a selection toggle repeats the
\* operation before it, and the ids that were selected when it was called
Record(op, id) ==
    /\ lastOp' = [op |-> op, id |-> id,
                  again |-> /\ op \in {"toggleItemSelection", "toggleFolderSelection"}
                            /\ lastOp.op = op
                            /\ lastOp.id = id]
    /\ prevSelected' = Range(selectionState.selectedItemIds)
    /\ UNCHANGED treeVars

\* refetch: fetchData up to its first await.  The calls awaiting a response
\* differ in nothing but their age: inflight counts them, latestInflight
\* tells whether the most recently started one is among them.
fetchData ==
    /\ inflight < MaxInflight
    /\ isLoading' = TRUE
    /\ error' = NoError
    /\ inflight' = inflight + 1
    /\ latestInflight' = TRUE
    /\ Record("fetchData", NoArg)
    /\ UNCHANGED <<folders, selectionState>>
    /\ useMemoFolderStates(FALSE)

\* processApiData of every well-formed body, evaluated once
ProcessedFolders == [b \in WellFormedBodies |-> processApiData(b)]

\* the message the catch block stores, "" when nothing is thrown
FetchError(result) ==
    IF result.rejected THEN "Failed to fetch"
    ELSE IF ~result.ok THEN "HTTP error! status: 500"
    ELSE IF ~result.body.folders.present \/ ~result.body.items.present
         THEN "Invalid API response structure"
    ELSE IF ~result.body.folders.isArray \/ ~result.body.items.isArray
         THEN "Invalid data format in API response"
    ELSE ""

\* mutant: setIsLoading(false) at the end of the try block, no finally
fetchDataResume_noFinally(latest, result) ==
    /\ IF latest THEN latestInflight ELSE inflight > (IF latestInflight THEN 1 ELSE 0)
    /\ inflight' = inflight - 1
    /\ latestInflight' = (latestInflight /\ ~latest)
    /\ IF FetchError(result) = ""
       THEN LET processedFolders == ProcessedFolders[result.body]
                allFolders == flattenFolders(processedFolders)
            IN  /\ folders' = processedFolders
                /\ selectionState' =
                      [selectionState EXCEPT !.expandedFolderIds =
                          {allFolders[i].id : i \in 1..Len(allFolders)}]
                /\ isLoading' = FALSE
                /\ UNCHANGED error
       ELSE /\ error' = FetchError(result)
            /\ UNCHANGED <<folders, selectionState, isLoading>>
    /\ Record("fetchDataResume", NoArg)
    /\ useMemoFolderStates(FetchError(result) = "")

\* fetchData from its first await to its end, for the most recently started
\* call (latest) or for an older one
fetchDataResume(latest, result) ==
    /\ IF latest THEN latestInflight ELSE inflight > (IF latestInflight THEN 1 ELSE 0)
    /\ inflight' = inflight - 1
    /\ latestInflight' = (latestInflight /\ ~latest)
    /\ IF FetchError(result) = ""
       THEN LET processedFolders == ProcessedFolders[result.body]
                allFolders == flattenFolders(processedFolders)
            IN  /\ folders' = processedFolders
                /\ selectionState' =
                      [selectionState EXCEPT !.expandedFolderIds =
                          {allFolders[i].id : i \in 1..Len(allFolders)}]
                /\ UNCHANGED error
       ELSE /\ error' = FetchError(result)
            /\ UNCHANGED <<folders, selectionState>>
    /\ isLoading' = FALSE
    /\ Record("fetchDataResume", NoArg)
    /\ useMemoFolderStates(FetchError(result) = "")

\* the updater toggleItemSelection hands to setSelectionState
toggleItemSelectionUpdater(prev, itemId) ==
    [prev EXCEPT !.selectedItemIds =
        IF SetHas(@, itemId) THEN SetDelete(@, itemId) ELSE SetAdd(@, itemId)]

\* mutant: the descendants of a collapsed folder are not rendered and are
\* left out, only the folder's own items are toggled
toggleFolderSelectionUpdater_visibleOnly(prev, targetFolder) ==
    [prev EXCEPT !.selectedItemIds =
        IF targetFolder.id \in prev.expandedFolderIds
        THEN toggleFolderSelection(targetFolder, @)
        ELSE toggleFolderSelection([targetFolder EXCEPT !.children = <<>>], @)]

\* the updater toggleFolderSelectionHandler hands to setSelectionState
toggleFolderSelectionUpdater(prev, targetFolder) ==
    [prev EXCEPT !.selectedItemIds = toggleFolderSelection(targetFolder, @)]

\* the updater clearSelection hands to setSelectionState
clearSelectionUpdater(prev) == [prev EXCEPT !.selectedItemIds = <<>>]

\* mutant: the delete branch missing
toggleItemSelection_addOnly(itemId) ==
    /\ selectionState' =
          [selectionState EXCEPT !.selectedItemIds = SetAdd(@, itemId)]
    /\ Record("toggleItemSelection", itemId)
    /\ UNCHANGED <<folders, error, isLoading, inflight, latestInflight>>
    /\ useMemoFolderStates(TRUE)

\* mutant: prev.selectedItemIds changed in place, no new Set made
toggleItemSelection_inPlace(itemId) ==
    /\ selectionState' =
          [selectionState EXCEPT !.selectedItemIds =
              IF SetHas(@, itemId) THEN SetDelete(@, itemId) ELSE SetAdd(@, itemId)]
    /\ Record("toggleItemSelection", itemId)
    /\ UNCHANGED <<folders, error, isLoading, inflight, latestInflight>>
    /\ useMemoFolderStates(FALSE)

toggleItemSelection(itemId) ==
    /\ selectionState' = toggleItemSelectionUpdater(selectionState, itemId)
    /\ Record("toggleItemSelection", itemId)
    /\ UNCHANGED <<folders, error, isLoading, inflight, latestInflight>>
    /\ useMemoFolderStates(TRUE)

\* allFolders.find(f => f.id === folderId): the matches, first one first
FindFolder(folderId) ==
    SelectSeq(flattenFolders(folders), LAMBDA f : f.id = folderId)

toggleFolderSelectionHandler(folderId) ==
    /\ IF FindFolder(folderId) = <<>>
       THEN UNCHANGED selectionState
       ELSE selectionState' =
               toggleFolderSelectionUpdater(selectionState, Head(FindFolder(folderId)))
    /\ Record("toggleFolderSelection", folderId)
    /\ UNCHANGED <<folders, error, isLoading, inflight, latestInflight>>
    /\ useMemoFolderStates(FindFolder(folderId) # <<>>)

\* mutant: the whole selection state replaced, ...prev missing
clearSelection_resetsAll ==
    /\ selectionState' = [selectedItemIds |-> <<>>, expandedFolderIds |-> {}]
    /\ Record("clearSelection", NoArg)
    /\ UNCHANGED <<folders, error, isLoading, inflight, latestInflight>>
    /\ useMemoFolderStates(TRUE)

clearSelection ==
    /\ selectionState' = clearSelectionUpdater(selectionState)
    /\ Record("clearSelection", NoArg)
    /\ UNCHANGED <<folders, error, isLoading, inflight, latestInflight>>
    /\ useMemoFolderStates(TRUE)

expandFolder(folderId) ==
    /\ selectionState' =
          [selectionState EXCEPT !.expandedFolderIds = @ \cup {folderId}]
    /\ Record("expandFolder", folderId)
    /\ UNCHANGED <<folders, error, isLoading, inflight, latestInflight>>
    /\ useMemoFolderStates(FALSE)

\* mutant: a fresh empty set stored instead of the copy without folderId
collapseFolder_collapsesAll(folderId) ==
    /\ selectionState' = [selectionState EXCEPT !.expandedFolderIds = {}]
    /\ Record("collapseFolder", folderId)
    /\ UNCHANGED <<folders, error, isLoading, inflight, latestInflight>>
    /\ useMemoFolderStates(FALSE)

collapseFolder(folderId) ==
    /\ selectionState' =
          [selectionState EXCEPT !.expandedFolderIds = @ \ {folderId}]
    /\ Record("collapseFolder", folderId)
    /\ UNCHANGED <<folders, error, isLoading, inflight, latestInflight>>
    /\ useMemoFolderStates(FALSE)

toggleFolderExpansion(folderId) ==
    /\ selectionState' =
          [selectionState EXCEPT !.expandedFolderIds =
              IF folderId \in @ THEN @ \ {folderId} ELSE @ \cup {folderId}]
    /\ Record("toggleFolderExpansion", folderId)
    /\ UNCHANGED <<folders, error, isLoading, inflight, latestInflight>>
    /\ useMemoFolderStates(FALSE)

\* the hook under all its operations; what the fetches received is not kept
Next ==
    \/ fetchData /\ UNCHANGED latestResult
    \/ \E latest \in BOOLEAN, result \in FetchResults :
          fetchDataResume(latest, result) /\ UNCHANGED latestResult
    \/ \E itemId \in ItemIdArgs : toggleItemSelection(itemId) /\ UNCHANGED latestResult
    \/ \E folderId \in FolderIdArgs :
          toggleFolderSelectionHandler(folderId) /\ UNCHANGED latestResult
    \/ clearSelection /\ UNCHANGED latestResult
    \/ \E folderId \in ExpansionIdArgs : expandFolder(folderId) /\ UNCHANGED latestResult
    \/ \E folderId \in ExpansionIdArgs : collapseFolder(folderId) /\ UNCHANGED latestResult
    \/ \E folderId \in ExpansionIdArgs :
          toggleFolderExpansion(folderId) /\ UNCHANGED latestResult

Spec == Init /\ [][Next]_vars

(***************************************************************************)
(* The fetches on their own, overlapping and completing in any order, with *)
(* the history of what the most recently started one received.             *)
(***************************************************************************)
\* a fetch starts: the most recently started fetch has received nothing yet
fetchDataTracked ==
    /\ fetchData
    /\ latestResult' = NoResult

\* a fetch completes: latestResult keeps what the most recently started fetch
\* received
fetchDataResumeTracked(latest, result) ==
    /\ fetchDataResume(latest, result)
    /\ latestResult' = (IF latest THEN result ELSE latestResult)

FetchNext ==
    \/ fetchDataTracked
    \/ \E latest \in BOOLEAN, result \in FetchResults :
          fetchDataResumeTracked(latest, result)

SpecFetch == Init /\ [][FetchNext]_vars

(***************************************************************************)
(* processApiData on its own, one call taken step by step over every       *)
(* response of a bounded family.  Folder ids are unique within a response, *)
(* as are item ids.                                                        *)
(***************************************************************************)
\* the id of the i-th folder row: the rows come in descending id order, so
\* input order and id order differ
FolderRowId(i) == MaxFolders + 1 - i

\* the ids of the item rows, in input order
ItemRowIds == <<12, 10, 11>>

\* an id that no folder row carries
UnknownFolderId == MaxFolders + 1

\* what a folder row may name as its parent: null, any folder row (itself
\* included), or no folder at all
ParentArgs == {null, UnknownFolderId} \cup (1..MaxFolders)

\* every way to hang the folder rows and to place the items, names fixed:
\* folder rows alternate "B", "A" and item rows "y", "x"
PlacementBodies ==
    { Body([i \in 1..MaxFolders |->
               <<FolderRowId(i), IF i % 2 = 1 THEN "B" ELSE "A", p[i]>>],
           [j \in 1..Len(ItemRowIds) |->
               <<ItemRowIds[j], IF j % 2 = 1 THEN "y" ELSE "x", g[j]>>]) :
        p \in [1..MaxFolders -> ParentArgs],
        g \in [1..Len(ItemRowIds) -> (1..MaxFolders) \cup {UnknownFolderId}] }

\* the parents that make the rows a forest holding every one of them: null
\* or an earlier row
EarlierParents ==
    { p \in [1..MaxFolders -> {null} \cup (1..MaxFolders)] :
        \A i \in 1..MaxFolders : p[i] = null \/ p[i] > FolderRowId(i) }

\* every way to name the folders and the items, over every such forest, the
\* items in the first row's folder or together in one of the others
OrderingBodies ==
    { Body([i \in 1..MaxFolders |-> <<FolderRowId(i), n[i], p[i]>>],
           [j \in 1..Len(ItemRowIds) |->
               <<ItemRowIds[j], m[j], IF j = 1 THEN FolderRowId(1) ELSE g>>]) :
        p \in EarlierParents,
        n \in [1..MaxFolders -> {"A", "B"}],
        m \in [1..Len(ItemRowIds) -> {"x", "y"}],
        g \in 1..MaxFolders }

TreeInit ==
    /\ HookInit
    /\ responseBody \in PlacementBodies \cup OrderingBodies
    /\ nested = <<>>
    /\ sortedTree = <<>>
    /\ resortedTree = <<>>
    /\ mergeSorted = <<>>
    /\ pc = "called"
    /\ pathFolderId = NoArg
    /\ folderPath = <<>>

\* processApiData, its first two lines: parseApiResponse, nestFoldersWithItems
Nest ==
    /\ pc = "called"
    /\ LET parsed == parseApiResponse(responseBody)
       IN  nested' = nestFoldersWithItems(parsed.folders, parsed.items)
    /\ pc' = "nested"
    /\ UNCHANGED <<responseBody, sortedTree, resortedTree, mergeSorted>>
    /\ UNCHANGED pathVars
    /\ UNCHANGED hookVars

\* processApiData, its last line: sortFolders(nested)
Sort ==
    /\ pc = "nested"
    /\ sortedTree' = sortFolders(nested)
    /\ pc' = "sorted"
    /\ UNCHANGED <<responseBody, nested, resortedTree, mergeSorted>>
    /\ UNCHANGED pathVars
    /\ UNCHANGED hookVars

\* sortFolders called on the forest it returned
SortAgain ==
    /\ pc = "sorted"
    /\ resortedTree' = sortFolders(sortedTree)
    /\ pc' = "resorted"
    /\ UNCHANGED <<responseBody, nested, sortedTree, mergeSorted>>
    /\ UNCHANGED pathVars
    /\ UNCHANGED hookVars

\* the merge-sort variant on the same folder rows: parseData, sortAndNestFolders
SortAndNest ==
    /\ pc = "called"
    /\ mergeSorted' = sortAndNestFolders(parseData(responseBody.folders.data))
    /\ pc' = "mergeSorted"
    /\ UNCHANGED <<responseBody, nested, sortedTree, resortedTree>>
    /\ UNCHANGED pathVars
    /\ UNCHANGED hookVars

TreeNext == Nest \/ Sort \/ SortAgain \/ SortAndNest

SpecTree == TreeInit /\ [][TreeNext]_vars

(***************************************************************************)
(* getFolderPath on its own, called on the forest processApiData returns   *)
(* for every response of a bounded family whose folder ids start at 0.     *)
(***************************************************************************)
\* the id of the i-th folder row: 0, 1, ...
PathRowId(i) == i - 1

\* what a folder row may name as its parent: null, any folder row (itself
\* included), or no folder at all
PathParentArgs == {null} \cup (0..MaxFolders)

\* folderId arguments: every folder row's id, and one no row carries
PathFolderIdArgs == 0..MaxFolders

\* every way to hang the folder rows, names alternating "B", "A", no items
PathBodies ==
    { Body([i \in 1..MaxFolders |->
               <<PathRowId(i), IF i % 2 = 1 THEN "B" ELSE "A", p[i]>>],
           << >>) :
        p \in [1..MaxFolders -> PathParentArgs] }

PathInit ==
    /\ HookInit
    /\ responseBody \in PathBodies
    /\ nested = <<>>
    /\ sortedTree = <<>>
    /\ resortedTree = <<>>
    /\ mergeSorted = <<>>
    /\ pc = "called"
    /\ pathFolderId = NoArg
    /\ folderPath = <<>>

\* getFolderPath(folderId, forest), forest being what processApiData returned
GetFolderPath(folderId) ==
    /\ pc = "sorted"
    /\ pathFolderId' = folderId
    /\ folderPath' = getFolderPath(folderId, sortedTree)
    /\ pc' = "path"
    /\ UNCHANGED <<responseBody, nested, sortedTree, resortedTree, mergeSorted>>
    /\ UNCHANGED hookVars

PathNext ==
    \/ Nest
    \/ Sort
    \/ \E folderId \in PathFolderIdArgs : GetFolderPath(folderId)

SpecPath == PathInit /\ [][PathNext]_vars

(***************************************************************************)
(* Notions the properties are stated in, defined on the forest directly    *)
(***************************************************************************)
RECURSIVE SubFolders(_)
\* a folder and every folder below it
SubFolders(f) == {f} \cup UNION {SubFolders(f.children[k]) : k \in 1..Len(f.children)}

ForestFolders == UNION {SubFolders(folders[k]) : k \in 1..Len(folders)}

ForestFolderIds == {f.id : f \in ForestFolders}

RECURSIVE DescendantItems(_)
\* the ids of the items owned by f or by a folder below it
DescendantItems(f) ==
    {f.items[k].id : k \in 1..Len(f.items)}
        \cup UNION {DescendantItems(f.children[k]) : k \in 1..Len(f.children)}

ForestItemIds == UNION {DescendantItems(f) : f \in ForestFolders}

Ancestors(f) == {a \in ForestFolders : a # f /\ f \in SubFolders(a)}

SelectedOf(state) == Range(state.selectedItemIds)

Selected == SelectedOf(selectionState)

FoldersWithId(id) == {f \in ForestFolders : f.id = id}

ToggledFolder(op) == IF op.op = "toggleFolderSelection" THEN FoldersWithId(op.id) ELSE {}

(***************************************************************************)
(* Properties                                                              *)
(***************************************************************************)
\* C1: toggleFolderSelection on a folder f of the forest, D being the ids of
\* all items owned by f and the folders below it: the selection becomes
\* S \ D when D is non-empty and inside S, and S \cup D otherwise; ids
\* outside D keep their membership.
C1_ToggleFolderSelection ==
    \A f \in ToggledFolder(lastOp) :
        LET D == DescendantItems(f)
            S == prevSelected
        IN  Selected = IF D # {} /\ D \subseteq S THEN S \ D ELSE S \cup D

\* a folder with a child folder was deselected as a whole, an id outside it kept
C1_Witness ==
    \E f \in ToggledFolder(lastOp) :
        /\ f.children # <<>>
        /\ Cardinality(DescendantItems(f)) = 2
        /\ prevSelected = DescendantItems(f) \cup {12}
        /\ Selected = {12}

\* C2: isFolderSelected(f) is true exactly when f has a descendant item and
\* every descendant item id of f is selected.
C2_IsFolderSelected ==
    \A f \in ForestFolders :
        isFolderSelected(f) <=>
            (DescendantItems(f) # {} /\ DescendantItems(f) \subseteq Selected)

\* a folder is selected through its own items and those of a folder below
\* it, while another folder that has a descendant item is not selected
C2_Witness ==
    \E f, g \in ForestFolders :
        /\ Cardinality(DescendantItems(f)) > Len(f.items) /\ isFolderSelected(f)
        /\ DescendantItems(g) # {} /\ ~isFolderSelected(g)

\* C3: isFolderIndeterminate(f) is true exactly when the number of selected
\* descendant item ids of f is above 0 and below their total number.
C3_IsFolderIndeterminate ==
    \A f \in ForestFolders :
        LET total == Cardinality(DescendantItems(f))
            selectedCount == Cardinality(DescendantItems(f) \cap Selected)
        IN  isFolderIndeterminate(f) <=> (0 < selectedCount /\ selectedCount < total)

\* a folder is indeterminate through one selected item of a child folder
C3_Witness ==
    \E f \in ForestFolders :
        /\ f.items = <<>>
        /\ isFolderIndeterminate(f)
        /\ Cardinality(DescendantItems(f) \cap Selected) = 1

\* C4: selected and indeterminate exclude each other; a folder with a
\* descendant item is in exactly one of selected, indeterminate, fully
\* unselected; a folder with no descendant item is neither selected nor
\* indeterminate.
C4_TriState ==
    \A f \in ForestFolders :
        LET D == DescendantItems(f)
            selected == isFolderSelected(f)
            indeterminate == isFolderIndeterminate(f)
            unselected == D \cap Selected = {}
        IN  /\ ~(selected /\ indeterminate)
            /\ D # {} =>
                  /\ selected \/ indeterminate \/ unselected
                  /\ ~(selected /\ unselected)
                  /\ ~(indeterminate /\ unselected)
            /\ D = {} => ~selected /\ ~indeterminate

\* one forest holds a selected folder, an indeterminate one and one that
\* owns nothing, while an id that no folder owns is selected
C4_Witness ==
    /\ Selected \ ForestItemIds # {}
    /\ \E f, g, h \in ForestFolders :
          /\ isFolderSelected(f)
          /\ isFolderIndeterminate(g)
          /\ DescendantItems(h) = {}

\* C5 as claimed: two toggleFolderSelection calls on the same folder in
\* succession leave the selected ids as they were before the first call,
\* whatever was selected then.
C5_ToggleTwiceAnyStart ==
    [][\A f \in ToggledFolder(lastOp') :
          lastOp'.again => SelectedOf(selectionState') = prevSelected]_vars

\* C5 (amended): two toggleFolderSelection calls on the same folder in
\* succession restore the selected ids when, before the first call, the
\* folder was not indeterminate: all of its descendant item ids were
\* selected, or none of them was.
C5_ToggleTwiceRestores ==
    [][\A f \in ToggledFolder(lastOp') :
          LET D == DescendantItems(f)
          IN  (lastOp'.again /\ (D \subseteq prevSelected \/ D \cap prevSelected = {}))
                 => SelectedOf(selectionState') = prevSelected]_vars

\* the second of two toggles has deselected a folder with a child folder
\* that the first had selected, and an id outside the folder stays selected
C5_Witness ==
    /\ lastOp.again
    /\ \E f \in ToggledFolder(lastOp) :
          /\ f.children # <<>>
          /\ Cardinality(DescendantItems(f)) = 2
          /\ DescendantItems(f) \subseteq prevSelected
          /\ DescendantItems(f) \cap Selected = {}
          /\ Selected # {}

\* C6: toggleFolderSelection on a folder with no descendant item leaves
\* selectedItemIds as it is.
C6_ToggleEmptyFolder ==
    \A f \in ToggledFolder(lastOp) :
        DescendantItems(f) = {} => Selected = prevSelected

\* a folder without descendant items was toggled while ids were selected
C6_Witness ==
    /\ Selected # {}
    /\ \E f \in ToggledFolder(lastOp) : DescendantItems(f) = {}

\* C7: after toggleFolderSelection on a folder f with a descendant item: if f
\* was not fully selected, f and every folder below it that has a descendant
\* item report selected and every ancestor reports selected or
\* indeterminate; if f was fully selected, f and every folder below it report
\* neither and no ancestor reports selected.  After toggleItemSelection a
\* folder whose descendant items are partly selected reports indeterminate,
\* and a folder that lacked only the toggled item reports selected.
C7_Propagation ==
    /\ \A f \in ToggledFolder(lastOp) :
          DescendantItems(f) # {} =>
             IF ~(DescendantItems(f) \subseteq prevSelected)
             THEN /\ \A g \in SubFolders(f) :
                        DescendantItems(g) # {} => isFolderSelected(g)
                  /\ \A a \in Ancestors(f) :
                        isFolderSelected(a) \/ isFolderIndeterminate(a)
             ELSE /\ \A g \in SubFolders(f) :
                        ~isFolderSelected(g) /\ ~isFolderIndeterminate(g)
                  /\ \A a \in Ancestors(f) : ~isFolderSelected(a)
    /\ lastOp.op = "toggleItemSelection" =>
          \A a \in ForestFolders :
             LET D == DescendantItems(a)
             IN  /\ (D \cap Selected # {} /\ ~(D \subseteq Selected))
                       => isFolderIndeterminate(a)
                 /\ (D \cap prevSelected # {} /\ D \ prevSelected = {lastOp.id})
                       => isFolderSelected(a)

\* a folder between an ancestor and a child folder was toggled from nothing
\* selected: it and its child report selected, its ancestor indeterminate
C7_Witness ==
    \E f \in ToggledFolder(lastOp) :
        /\ prevSelected = {}
        /\ isFolderSelected(f)
        /\ \E g \in SubFolders(f) : g # f /\ isFolderSelected(g)
        /\ \E a \in Ancestors(f) : isFolderIndeterminate(a)

\* C8: toggleItemSelection(itemId) flips the membership of itemId and of no
\* other id, leaves expandedFolderIds as it is, and called twice in
\* succession restores the selected ids.
C8_ToggleItemSelection ==
    [][lastOp'.op = "toggleItemSelection" =>
          LET after == SelectedOf(selectionState')
          IN  /\ lastOp'.id \in after <=> lastOp'.id \notin Selected
              /\ after \ {lastOp'.id} = Selected \ {lastOp'.id}
              /\ selectionState'.expandedFolderIds = selectionState.expandedFolderIds
              /\ lastOp'.again => after = prevSelected]_vars

\* the second of two toggles of one item has deselected it again, next to
\* another selected id and an expanded folder
C8_Witness ==
    /\ lastOp.op = "toggleItemSelection"
    /\ lastOp.again
    /\ lastOp.id \notin Selected
    /\ Selected # {}
    /\ selectionState.expandedFolderIds # {}

\* C9 as claimed: a toggle called with an id that the current forest does
\* not hold leaves the selected ids as they are.
C9_AbsentIdToggleKeepsSelection ==
    [][(\/ lastOp'.op = "toggleItemSelection" /\ lastOp'.id \notin ForestItemIds
        \/ /\ lastOp'.op \in {"toggleFolderSelection", "toggleFolderExpansion"}
           /\ lastOp'.id \notin ForestFolderIds)
          => SelectedOf(selectionState') = Selected]_vars

\* C10: clearSelection empties selectedItemIds, so that getSelectedItemIds
\* returns the empty sequence, and leaves expandedFolderIds and the forest as
\* they are.
C10_ClearSelection ==
    [][lastOp'.op = "clearSelection" =>
          /\ selectionState'.selectedItemIds = <<>>
          /\ getSelectedItemIdsOf(selectionState') = <<>>
          /\ selectionState'.expandedFolderIds = selectionState.expandedFolderIds
          /\ folders' = folders]_vars

\* a selection was cleared in a loaded forest with expanded folders
C10_Witness ==
    /\ lastOp.op = "clearSelection"
    /\ prevSelected # {}
    /\ getSelectedItemIds = <<>>
    /\ selectionState.expandedFolderIds # {}
    /\ folders # <<>>

\* C11: expandFolder, collapseFolder and toggleFolderExpansion change nothing
\* but expandedFolderIds: the selected ids, the forest and with them the
\* selected / indeterminate state of every folder stay as they were.  Of
\* expandedFolderIds only the membership of the id given changes: expand
\* makes it a member, collapse a non-member, toggle flips it.
C11_ExpansionOnly ==
    [][lastOp'.op \in {"expandFolder", "collapseFolder", "toggleFolderExpansion"} =>
         /\ selectionState'.selectedItemIds = selectionState.selectedItemIds
         /\ folders' = folders
         /\ calculateFolderStates(folders', selectionState'.selectedItemIds)
               = calculateFolderStates(folders, selectionState.selectedItemIds)
         /\ selectionState'.expandedFolderIds \ {lastOp'.id}
               = selectionState.expandedFolderIds \ {lastOp'.id}
         /\ lastOp'.op = "expandFolder" =>
               lastOp'.id \in selectionState'.expandedFolderIds
         /\ lastOp'.op = "collapseFolder" =>
               lastOp'.id \notin selectionState'.expandedFolderIds
         /\ lastOp'.op = "toggleFolderExpansion" =>
               (lastOp'.id \in selectionState'.expandedFolderIds
                   <=> lastOp'.id \notin selectionState.expandedFolderIds)]_vars

\* a folder of the forest has just been collapsed while other folders stay
\* expanded and some of its items are selected
C11_Witness ==
    /\ lastOp.op = "collapseFolder"
    /\ lastOp.id \in ForestFolderIds
    /\ lastOp.id \notin selectionState.expandedFolderIds
    /\ selectionState.expandedFolderIds # {}
    /\ \E f \in FoldersWithId(lastOp.id) : isFolderIndeterminate(f)

\* C12: getSelectedItemIds returns every member of selectedItemIds exactly
\* once and nothing else, in strictly ascending numeric order, whatever the
\* order the ids were selected in.
C12_GetSelectedItemIds ==
    LET out == getSelectedItemIds
    IN  /\ Range(out) = Selected
        /\ Len(out) = Cardinality(Selected)
        /\ \A i \in 1..Len(out) : \A j \in 1..Len(out) : i < j => out[i] < out[j]

\* three ids are selected, the largest first and the smallest second
C12_Witness ==
    /\ Len(selectionState.selectedItemIds) = 3
    /\ selectionState.selectedItemIds[1] > selectionState.selectedItemIds[3]
    /\ selectionState.selectedItemIds[3] > selectionState.selectedItemIds[2]
    /\ getSelectedItemIds # selectionState.selectedItemIds

(***************************************************************************)
(* Properties of tree construction and sorting, on SpecTree                *)
(***************************************************************************)
\* the folders of a forest, at every depth
FoldersOf(forest) == UNION {SubFolders(forest[k]) : k \in 1..Len(forest)}

\* the ids of a sequence of folders or of items, in its order
IdsOf(seq) == [k \in 1..Len(seq) |-> seq[k].id]

\* where the folder or item with that id stands in a sequence
PosIn(seq, id) == CHOOSE k \in 1..Len(seq) : seq[k].id = id

\* the flat folders and items handed to nestFoldersWithItems
ParsedInput == parseApiResponse(responseBody)

\* C13: after nestFoldersWithItems, every item in the forest sits in the
\* items of the folder whose id is its folder_id, and a folder's items stand
\* in input order; no item stands under two folders or twice in one; an item
\* whose folder_id is no folder's id is in no folder's items and in no
\* folder's descendant item ids.  (Building is total: Nest is enabled for
\* every input.)
C13_ItemPlacement ==
    pc = "nested" =>
        LET flat == ParsedInput
            fs == FoldersOf(nested)
        IN  /\ \A f \in fs : \A k \in 1..Len(f.items) :
                  /\ f.items[k] \in Range(flat.items)
                  /\ f.items[k].folder_id = f.id
                  /\ \A l \in 1..Len(f.items) :
                        k < l => PosIn(flat.items, f.items[k].id)
                                    < PosIn(flat.items, f.items[l].id)
            /\ \A f \in fs : \A g \in fs :
                  \A k \in 1..Len(f.items) : \A l \in 1..Len(g.items) :
                     f.items[k].id = g.items[l].id => (f = g /\ k = l)
            /\ \A j \in 1..Len(flat.items) :
                  flat.items[j].folder_id \notin Range(IdsOf(flat.folders)) =>
                     \A f \in fs :
                        /\ flat.items[j].id \notin Range(IdsOf(f.items))
                        /\ flat.items[j].id \notin Range(getAllDescendantItemIds(f))

\* a folder below the root level holds the first two item rows, in input
\* order (which is not id order), and the third item names no folder
C13_Witness ==
    /\ pc = "nested"
    /\ \E f \in FoldersOf(nested) :
          /\ f \notin Range(nested)
          /\ IdsOf(f.items) = SubSeq(ItemRowIds, 1, 2)
    /\ ParsedInput.items[3].folder_id = UnknownFolderId

\* C14: nestFoldersWithItems returns as roots exactly the folders whose
\* parent is null, in input order; the children of a folder of the forest are
\* exactly the folders naming it as parent, in input order; a folder whose
\* parent id is no folder's id is nowhere in the forest.
C14_Nesting ==
    pc = "nested" =>
        LET flat == ParsedInput.folders
        IN  /\ IdsOf(nested) = IdsOf(SelectSeq(flat, LAMBDA r : r.parent = null))
            /\ \A f \in FoldersOf(nested) :
                  IdsOf(f.children) = IdsOf(SelectSeq(flat, LAMBDA r : r.parent = f.id))
            /\ \A i \in 1..Len(flat) :
                  (flat[i].parent # null /\ flat[i].parent \notin Range(IdsOf(flat))) =>
                     flat[i].id \notin {f.id : f \in FoldersOf(nested)}

\* a root with a child, beside a folder whose parent id is unknown
C14_Witness ==
    /\ pc = "nested"
    /\ \E k \in 1..Len(nested) : nested[k].children # <<>>
    /\ \E i \in 1..MaxFolders : ParsedInput.folders[i].parent = UnknownFolderId

\* post holds the elements of pre, in non-decreasing order of name, those of
\* equal name in the order they have in pre
OrderedStably(pre, post) ==
    /\ Len(post) = Len(pre)
    /\ Range(IdsOf(post)) = Range(IdsOf(pre))
    /\ \A i \in 1..Len(post) : \A j \in 1..Len(post) :
          i < j => /\ localeCompare(post[i].name, post[j].name) <= 0
                   /\ localeCompare(post[i].name, post[j].name) = 0 =>
                         PosIn(pre, post[i].id) < PosIn(pre, post[j].id)

RECURSIVE SortedFrom(_, _)
\* the sibling sequence post is pre ordered stably, each folder keeps its id,
\* name, parent and the items it holds, its items are ordered stably, and
\* the same holds of its children
SortedFrom(pre, post) ==
    /\ OrderedStably(pre, post)
    /\ \A k \in 1..Len(post) :
          LET a == post[k]
              b == pre[PosIn(pre, a.id)]
          IN  /\ a.name = b.name
              /\ a.parent = b.parent
              /\ Range(a.items) = Range(b.items)
              /\ OrderedStably(b.items, a.items)
              /\ SortedFrom(b.children, a.children)

\* C15: after sortFolders, which is what processApiData returns, the roots,
\* every folder's children and every folder's items at every depth stand in
\* non-decreasing order of name, equal names in their order before the sort;
\* every folder holds the folders and items it held before.
C15_SortedEveryDepth ==
    pc = "sorted" =>
        /\ SortedFrom(nested, sortedTree)
        /\ sortedTree = processApiData(responseBody)

\* the sort has reordered the children of a folder and its items, and two of
\* its items have the same name
C15_Witness ==
    /\ pc = "sorted"
    /\ \E f \in FoldersOf(nested) : \E g \in FoldersOf(sortedTree) :
          /\ f.id = g.id
          /\ IdsOf(f.children) # IdsOf(g.children)
          /\ IdsOf(f.items) # IdsOf(g.items)
          /\ \E k \in 1..Len(g.items) : \E l \in 1..Len(g.items) :
                k < l /\ g.items[k].name = g.items[l].name

\* C16: sortFolders is idempotent: sorting the forest that sortFolders
\* returned gives a forest equal to it at every depth.
C16_SortIdempotent ==
    pc = "resorted" => resortedTree = sortedTree

\* a forest the first sort reordered, with two children of one name, has
\* been sorted a second time
C16_Witness ==
    /\ pc = "resorted"
    /\ sortedTree # nested
    /\ \E f \in FoldersOf(sortedTree) :
          /\ Len(f.children) > 1
          /\ f.children[1].name = f.children[2].name

(***************************************************************************)
(* Properties of fetching, on Spec                                         *)
(***************************************************************************)
\* a response that arrived with status OK but lacks a section, or has a
\* section whose data is not an array
Malformed(result) ==
    /\ ~result.rejected
    /\ result.ok
    /\ \/ ~result.body.folders.present
       \/ ~result.body.items.present
       \/ ~result.body.folders.isArray
       \/ ~result.body.items.isArray

\* transport error, non-OK status or malformed response
Failed(result) == result.rejected \/ ~result.ok \/ Malformed(result)

\* C17: when the response of a fetch lacks the folders or the items section,
\* or the data of one of them is not an array, the load fails as a whole:
\* error becomes non-null, isLoading becomes false, and folders stays what
\* it was (nothing built from that response is installed).
C17_MalformedFails ==
    [][lastOp'.op = "fetchDataResume" =>
         \A latest \in BOOLEAN : \A result \in FetchResults :
            (Malformed(result) /\ fetchDataResume(latest, result)) =>
               /\ error' # NoError
               /\ isLoading' = FALSE
               /\ folders' = folders]_vars

\* the last fetch under way came back with a data field that is not an
\* array: the error is set and loading has ended
C17_Witness ==
    /\ lastOp.op = "fetchDataResume"
    /\ error = "Invalid data format in API response"
    /\ ~isLoading
    /\ inflight = 0

\* C18 (as claimed): after a fetch or refetch that failed (transport error,
\* non-OK status or malformed response) the hook holds no forest of an
\* earlier successful fetch.
C18_FailureDiscardsForest ==
    [][lastOp'.op = "fetchDataResume" =>
         \A latest \in BOOLEAN : \A result \in FetchResults :
            (Failed(result) /\ fetchDataResume(latest, result)) =>
               folders' = <<>>]_vars

\* C19 (as claimed): whenever a fetch completes successfully, the ids that
\* were selected before do not survive: selectedItemIds is empty afterwards.
C19_RefetchDiscardsSelection ==
    [][lastOp'.op = "fetchDataResume" =>
         \A latest \in BOOLEAN : \A result \in FetchResults :
            (~Failed(result) /\ fetchDataResume(latest, result)) =>
               SelectedOf(selectionState') = {}]_vars

\* C20: immediately after a fetch completes successfully, expandedFolderIds
\* is exactly the set of the ids of the folders of the new forest, at every
\* depth, whatever it held before.
C20_ExpandedIsAllFolders ==
    [][lastOp'.op = "fetchDataResume" =>
         \A latest \in BOOLEAN : \A result \in FetchResults :
            (~Failed(result) /\ fetchDataResume(latest, result)) =>
               selectionState'.expandedFolderIds = {f.id : f \in FoldersOf(folders')}]_vars

\* a fetch has just installed a forest three levels deep, all of whose
\* folders are expanded
C20_Witness ==
    /\ lastOp.op = "fetchDataResume"
    /\ error = NoError
    /\ \E k \in 1..Len(folders) : \E c \in 1..Len(folders[k].children) :
          folders[k].children[c].children # <<>>
    /\ selectionState.expandedFolderIds = ForestFolderIds
    /\ Cardinality(ForestFolderIds) = 3

\* C21 (as claimed): while a fetch is under way, on the initial load and on
\* every refetch, the hook holds no forest: folders is empty.
C21_NoForestWhileFetching ==
    inflight > 0 => folders = <<>>

\* C22 (as claimed): toggleItemSelection, toggleFolderSelection and
\* clearSelection called while a fetch is under way do not change
\* selectedItemIds.
C22_SelectionUnavailableWhileFetching ==
    [][(/\ inflight > 0
        /\ lastOp'.op \in {"toggleItemSelection", "toggleFolderSelection",
                           "clearSelection"}) =>
          selectionState'.selectedItemIds = selectionState.selectedItemIds]_vars

\* C23: folder selection is derived, never stored: in every reachable state
\* the memoized folderStates that isFolderSelected and isFolderIndeterminate
\* read equals calculateFolderStates of the current forest and the current
\* selectedItemIds, and it has an entry for every folder of the forest.
C23_FolderStatesFresh ==
    /\ folderStates = calculateFolderStates(folders, selectionState.selectedItemIds)
    /\ DOMAIN folderStates = ForestFolderIds

\* an expansion change, which does not recompute the memo, has followed
\* selections that left one folder selected and another indeterminate
C23_Witness ==
    /\ lastOp.op = "toggleFolderExpansion"
    /\ \E f \in ForestFolders : isFolderSelected(f)
    /\ \E f \in ForestFolders : isFolderIndeterminate(f)

RECURSIVE ParentAfter(_, _, _)
\* where n steps along the parent pointers lead from id; the walk stops at
\* null and at an id that no folder carries
ParentAfter(flat, id, n) ==
    IF n = 0 \/ id \notin Range(IdsOf(flat)) THEN id
    ELSE ParentAfter(flat, flat[PosIn(flat, id)].parent, n - 1)

\* the parent pointers from id never end: id lies on a parent cycle (a
\* self-reference included) or below one
OnOrBelowCycle(flat, id) == ParentAfter(flat, id, Len(flat)) \in Range(IdsOf(flat))

RECURSIVE OccurrencesIn(_, _)
\* how many folders of the forest, at any depth, carry that id
OccurrencesIn(forest, id) ==
    IF forest = <<>> THEN 0
    ELSE (IF Head(forest).id = id THEN 1 ELSE 0)
            + OccurrencesIn(Head(forest).children, id)
            + OccurrencesIn(Tail(forest), id)

\* C24: for every flat input with unique ids, parent self-references and
\* cycles included, what nestFoldersWithItems returns is a forest: every
\* input folder occurs in it at most once, no folder has itself below it,
\* and a folder on or below a parent cycle is absent.  The traversals of the
\* forest therefore end: flattenFolders visits no more folders than the
\* input has, getAllDescendantItemIds no more items, calculateFolderStates
\* has one entry per folder (sortFolders ends in the Sort step).
C24_IsForest ==
    pc = "nested" =>
        LET flat == ParsedInput.folders
        IN  /\ \A i \in 1..Len(flat) : OccurrencesIn(nested, flat[i].id) <= 1
            /\ \A f \in FoldersOf(nested) : OccurrencesIn(f.children, f.id) = 0
            /\ \A i \in 1..Len(flat) :
                  OnOrBelowCycle(flat, flat[i].id) => OccurrencesIn(nested, flat[i].id) = 0
            /\ Len(flattenFolders(nested)) <= Len(flat)
            /\ \A f \in FoldersOf(nested) :
                  Len(getAllDescendantItemIds(f)) <= Len(ParsedInput.items)
            /\ DOMAIN calculateFolderStates(nested, <<>>) = {f.id : f \in FoldersOf(nested)}

\* two folders are each other's parent and the builder has returned the
\* third folder as the only root
C24_Witness ==
    /\ pc = "nested"
    /\ Len(nested) = 1
    /\ LET flat == ParsedInput.folders
       IN  \E i \in 1..Len(flat) : \E j \in 1..Len(flat) :
              /\ i # j
              /\ flat[i].parent = flat[j].id
              /\ flat[j].parent = flat[i].id

\* C25 (as claimed): isLoading is true in every state in which at least one
\* fetch is under way, also when fetches overlap and complete in any order.
C25_LoadingWhileFetching ==
    inflight > 0 => isLoading

\* C26 (as claimed): once no fetch is under way the state reflects the most
\* recently started fetch, in whatever order overlapping fetches completed:
\* error is non-null exactly when that fetch failed, and when it succeeded
\* folders is the forest built from its response.
C26_LatestFetchWins ==
    inflight = 0 =>
        /\ error # NoError <=> Failed(latestResult)
        /\ ~Failed(latestResult) => folders = processApiData(latestResult.body)

\* C27 (as claimed): in every reachable state selectedItemIds, and so the
\* sequence getSelectedItemIds returns, holds only ids of items of the
\* current forest.
C27_SelectedInForest ==
    /\ Selected \subseteq ForestItemIds
    /\ Range(getSelectedItemIds) \subseteq ForestItemIds

\* what the selection operation op makes of a selection state prev, the
\* forest being the current one
SelectionUpdate(op, prev) ==
    CASE op.op = "toggleItemSelection" -> toggleItemSelectionUpdater(prev, op.id)
      [] op.op = "toggleFolderSelection" ->
            IF FindFolder(op.id) = <<>> THEN prev
            ELSE toggleFolderSelectionUpdater(prev, Head(FindFolder(op.id)))
      [] op.op = "clearSelection" -> clearSelectionUpdater(prev)

\* C28: expansion has no effect on selection: toggleItemSelection,
\* toggleFolderSelection and clearSelection leave expandedFolderIds as it
\* is, and called on a state that differs from the current one only in
\* expandedFolderIds the same operation gives the same selectedItemIds, and
\* with them the same selected / indeterminate state of every folder.
C28_ExpansionIrrelevant ==
    [][lastOp'.op \in {"toggleItemSelection", "toggleFolderSelection",
                       "clearSelection"} =>
         /\ selectionState'.expandedFolderIds = selectionState.expandedFolderIds
         /\ folderStates' = calculateFolderStates(folders, selectionState'.selectedItemIds)
         /\ \A E \in SUBSET FolderIdArgs :
               LET other == [selectionState EXCEPT !.expandedFolderIds = E]
                   updated == SelectionUpdate(lastOp', other)
               IN  /\ updated.selectedItemIds = selectionState'.selectedItemIds
                   /\ updated.expandedFolderIds = E]_vars

\* a collapsed folder with a child folder has been toggled and is now
\* selected, its descendants' items included
C28_Witness ==
    /\ lastOp.op = "toggleFolderSelection"
    /\ lastOp.id \notin selectionState.expandedFolderIds
    /\ \E f \in FoldersWithId(lastOp.id) :
          /\ f.children # <<>>
          /\ Cardinality(DescendantItems(f)) > Len(f.items)
          /\ isFolderSelected(f)

\* C29: the two implementations of the tri-state agree: for every folder f
\* of the forest and the current selectedItemIds, the selected flag of
\* calculateFolderStates is areAllFolderItemsSelected(f, ...), its
\* indeterminate flag is the standalone isFolderIndeterminate(f, ...), and
\* the checked state the hook reports is the fully-selected test by which
\* toggleFolderSelection chooses between select and deselect.
C29_TriStateImplementationsAgree ==
    LET ids == selectionState.selectedItemIds
        states == calculateFolderStates(folders, ids)
    IN  \A f \in ForestFolders :
           /\ states[f.id].selected = areAllFolderItemsSelected(f, ids)
           /\ states[f.id].indeterminate = isFolderIndeterminateOf(f, ids)
           /\ isFolderSelected(f) = areAllFolderItemsSelected(f, ids)

\* a chain of three folders: the leaf owns nothing, the middle one has all
\* its items selected, the root only some
C29_Witness ==
    \E f \in ForestFolders : \E c \in 1..Len(f.children) :
        \E d \in 1..Len(f.children[c].children) :
           /\ isFolderIndeterminateOf(f, selectionState.selectedItemIds)
           /\ areAllFolderItemsSelected(f.children[c], selectionState.selectedItemIds)
           /\ getAllDescendantItemIds(f.children[c].children[d]) = <<>>

RECURSIVE NestedAndOrdered(_, _, _)
\* siblings are the folders of flat whose parent is parentId, in
\* non-decreasing order of name, those of equal name in input order, and the
\* same holds of the children of each of them
NestedAndOrdered(flat, siblings, parentId) ==
    /\ OrderedStably(SelectSeq(flat, LAMBDA r : r.parent = parentId), siblings)
    /\ \A k \in 1..Len(siblings) :
          /\ siblings[k].name = flat[PosIn(flat, siblings[k].id)].name
          /\ siblings[k].parent = parentId
          /\ NestedAndOrdered(flat, siblings[k].children, siblings[k].id)

\* C30: sortAndNestFolders returns the folders with parent null as roots and
\* every other folder under its parent when that parent is found; at every
\* depth the siblings are exactly the folders naming that parent, in
\* non-decreasing order of name with equal names in input order; a folder
\* whose parent is not found is nowhere in the result.
C30_SortAndNestFolders ==
    pc = "mergeSorted" =>
        LET flat == parseData(responseBody.folders.data)
        IN  /\ NestedAndOrdered(flat, mergeSorted, null)
            /\ \A i \in 1..Len(flat) :
                  (flat[i].parent # null /\ flat[i].parent \notin Range(IdsOf(flat))) =>
                     flat[i].id \notin {f.id : f \in FoldersOf(mergeSorted)}

\* a folder of the result has two children of one name, in input order (the
\* row given first has the larger id)
C30_Witness ==
    /\ pc = "mergeSorted"
    /\ \E f \in FoldersOf(mergeSorted) :
          /\ Len(f.children) = 2
          /\ f.children[1].name = f.children[2].name
          /\ f.children[1].id > f.children[2].id

(***************************************************************************)
(* Properties of getFolderPath, on SpecPath                                *)
(***************************************************************************)
\* C31: getFolderPath(folderId, forest) returns, for every folder of the
\* forest whatever its id (0 included), the whole chain from a root (parent
\* null) down to that folder: the first element is a root, the last is the
\* folder asked for, and each element is the parent of the next, holding it
\* among its children.  For an id no folder of the forest has, it returns
\* the empty sequence.
C31_GetFolderPath ==
    pc = "path" =>
        LET targets == {f \in FoldersOf(sortedTree) : f.id = pathFolderId}
            n == Len(folderPath)
        IN  IF targets = {}
            THEN folderPath = <<>>
            ELSE /\ n > 0
                 /\ folderPath[1].parent = null
                 /\ folderPath[n] \in targets
                 /\ \A k \in 1..(n - 1) :
                        /\ folderPath[k + 1].parent = folderPath[k].id
                        /\ folderPath[k + 1] \in Range(folderPath[k].children)

====
